---- MODULE Spec2Model ----
(***************************************************************************)
(* Model of PyPoE/poe/file/translations.py: the translation model          *)
(* (Translation, TranslationLanguage, TranslationString, TranslationRange, *)
(* TranslationQuantifier), the shadowing index of TranslationFile and the  *)
(* lookup of TranslationFile.get_translation.                              *)
(*                                                                         *)
(* Encoding of Python values:                                              *)
(*   None            the empty tuple <<>>; an int bound k is <<k>>         *)
(*   a query value   <<v>> for a scalar, <<lo, hi>> for a 2-tuple range    *)
(*   str             a sequence of one-character strings                   *)
(*   list            a sequence                                            *)
(*   dict            a sequence of <<key, value>> entries in insertion     *)
(*                   order (_translations_hash), or a function             *)
(*                   (registered_handlers, whose equality ignores order)   *)
(*   object equality TLA+ equality: every __eq__ of the module is          *)
(*                   structural over the fields modelled here              *)
(***************************************************************************)
EXTENDS Integers, Sequences, FiniteSets, TLC

VARIABLES
    translations,       \* TranslationFile._translations
    translations_hash,  \* TranslationFile._translations_hash
    warned,             \* DuplicateIdentifierWarning count of the last call
    other,              \* a second TranslationFile, the argument of merge
    ops,                \* number of read/merge calls made so far
    result,             \* value returned by the last call on the file
    rcall,              \* last TranslationRange.in_range call
    scall,              \* last get_language / get_string call
    fcall,              \* last TranslationString.format_string call
    disk,               \* the text of every file under base_dir, as parsed items
    custom_file,        \* TranslationFileCache._custom_file
    files,              \* TranslationFileCache._files
    loads,              \* path -> number of TranslationFile objects built from it
    gets,               \* calls made on the cache
    got,                \* last call on the cache and what it returned
    hcall,              \* last _add_translation_hashed call
    pcall               \* last description block given to _read

cacheVars == <<disk, custom_file, files, loads, gets, got>>

vars == <<translations, translations_hash, warned, other, ops, result, rcall, scall, fcall,
          cacheVars, hcall, pcall>>

fileVars == <<translations, translations_hash, warned, other, ops, result>>

(***************************************************************************)
(* Bounds                                                                  *)
(***************************************************************************)
MaxOps == 3        \* read / merge calls on the two files
MaxTags == 2       \* ids in one query
MaxBound == 2      \* in_range is applied to bounds in -MaxBound..MaxBound
MaxArity == 4      \* values of the longest variant line given to format_string
MaxGets == 3       \* get_file / [] calls on one cache
MaxDepth == 4      \* nested get_file calls before the interpreter gives up
MaxCalls == 2      \* get_translation calls made one after the other on a loaded file

(***************************************************************************)
(* Generic helpers for Python list operations                              *)
(***************************************************************************)
None == <<>>

InList(x, s) == \E i \in 1..Len(s) : s[i] = x

\* list.index(x): position of the first element equal to x (1-based)
ListIndex(x, s) == CHOOSE i \in 1..Len(s) : s[i] = x /\ \A j \in 1..(i-1) : s[j] # x

\* del s[i]
DelAt(s, i) == [k \in 1..(Len(s)-1) |-> IF k < i THEN s[k] ELSE s[k+1]]

\* list.remove(x) inside try/except ValueError: pass
RemoveFirst(s, x) == IF InList(x, s) THEN DelAt(s, ListIndex(x, s)) ELSE s

SeqsUpTo(S, n) == UNION {[1..k -> S] : k \in 0..n}

(***************************************************************************)
(* TranslationRange.in_range                                               *)
(***************************************************************************)
Rng(mn, mx) == [min |-> mn, max |-> mx]

\* in_range with the closed upper bound of a max-only range made strict
in_range_strict(r, value) ==
    IF r.min = None /\ r.max = None THEN 1
    ELSE IF r.min = None /\ value < r.max[1] THEN 2
    ELSE IF r.max = None /\ value >= r.min[1] THEN 2
    ELSE IF r.min # None /\ r.max # None /\ r.min[1] <= value /\ value <= r.max[1] THEN 3
    ELSE 0

in_range(r, value) ==
    IF r.min = None /\ r.max = None THEN 1
    ELSE IF r.min = None /\ value <= r.max[1] THEN 2
    ELSE IF r.max = None /\ value >= r.min[1] THEN 2
    ELSE IF r.min # None /\ r.max # None /\ r.min[1] <= value /\ value <= r.max[1] THEN 3
    ELSE 0

NoCall == [op |-> "none"]

\* no cache has been constructed
NoCache ==
    /\ disk = <<>>
    /\ custom_file = <<>>
    /\ files = <<>>
    /\ loads = <<>>
    /\ gets = 0
    /\ got = NoCall

BoundValues == {None} \cup {<<k>> : k \in (-MaxBound)..MaxBound}

\* the arguments of a call that has not run yet
RangeArgs ==
    {[op |-> "args", min |-> mn, max |-> mx, value |-> v] :
        mn \in BoundValues, mx \in BoundValues,
        v \in (-MaxBound - 1)..(MaxBound + 1)}

CallInRange ==
    /\ rcall.op = "args"
    /\ rcall' = [op |-> "in_range", min |-> rcall.min, max |-> rcall.max,
                 value |-> rcall.value,
                 score |-> in_range(Rng(rcall.min, rcall.max), rcall.value)]
    /\ UNCHANGED <<fileVars, scall, fcall, cacheVars, hcall, pcall>>

(***************************************************************************)
(* str helpers: a str is a sequence of one-character strings               *)
(***************************************************************************)
DigitChars == <<"0", "1", "2", "3", "4", "5", "6", "7", "8", "9">>

RECURSIVE StrNat(_)
StrNat(n) == IF n < 10 THEN <<DigitChars[n + 1]>>
             ELSE StrNat(n \div 10) \o <<DigitChars[(n % 10) + 1]>>

\* str(v) of an int
StrInt(v) == IF v < 0 THEN <<"-">> \o StrNat(-v) ELSE StrNat(v)

\* tag in s
Contains(tag, s) ==
    \E k \in 0..(Len(s) - Len(tag)) : SubSeq(s, k + 1, k + Len(tag)) = tag

\* s.replace(old, new): leftmost non-overlapping occurrences
RECURSIVE StrReplace(_, _, _)
StrReplace(s, old, new) ==
    IF Len(s) < Len(old) THEN s
    ELSE IF SubSeq(s, 1, Len(old)) = old
         THEN new \o StrReplace(SubSeq(s, Len(old) + 1, Len(s)), old, new)
         ELSE <<s[1]>> \o StrReplace(Tail(s), old, new)

\* string.ascii_letters
ascii_letters ==
    <<"a", "b", "c", "d", "e", "f", "g", "h", "i", "j", "k", "l", "m",
      "n", "o", "p", "q", "r", "s", "t", "u", "v", "w", "x", "y", "z",
      "A", "B", "C", "D", "E", "F", "G", "H", "I", "J", "K", "L", "M",
      "N", "O", "P", "Q", "R", "S", "T", "U", "V", "W", "X", "Y", "Z">>

(***************************************************************************)
(* TranslationQuantifier: the integer handlers of the registry             *)
(***************************************************************************)
\* handlers[name](v); the division handlers produce floats and are not
\* modelled.  The two integer handlers commute, so the iteration order of
\* registered_handlers does not change the result of handle.
HandlerNames == <<"deciseconds_to_seconds", "negate">>

handlers(name, v) ==
    IF name = "deciseconds_to_seconds" THEN v * 10
    ELSE v * (-1)

\* values[index] = f(values[index]) or (f(values[index][0]), f(values[index][1]))
ApplyHandler(name, values, is_range, index) ==
    [values EXCEPT ![index] =
        IF is_range[index]
        THEN <<handlers(name, values[index][1]), handlers(name, values[index][2])>>
        ELSE <<handlers(name, values[index][1])>>]

\* the inner loop of handle: for index in self.registered_handlers[handler_name]
RECURSIVE HandleIndexes(_, _, _, _, _)
HandleIndexes(name, idxs, k, values, is_range) ==
    IF k > Len(idxs) THEN values
    ELSE HandleIndexes(name, idxs, k + 1,
                       ApplyHandler(name, values, is_range, idxs[k]), is_range)

\* the outer loop of handle: for handler_name in self.registered_handlers
RECURSIVE HandleNames(_, _, _, _)
HandleNames(quantifier, n, values, is_range) ==
    IF n > Len(HandlerNames) THEN values
    ELSE IF HandlerNames[n] \in DOMAIN quantifier
         THEN HandleNames(quantifier, n + 1,
                          HandleIndexes(HandlerNames[n], quantifier[HandlerNames[n]],
                                        1, values, is_range),
                          is_range)
         ELSE HandleNames(quantifier, n + 1, values, is_range)

handle(quantifier, values, is_range) == HandleNames(quantifier, 1, values, is_range)

\* register(handler, index); an unknown handler is warned about and dropped
register(q, handler, index) ==
    IF handler \in DOMAIN q THEN [q EXCEPT ![handler] = Append(@, index)]
    ELSE IF InList(handler, HandlerNames) THEN (handler :> <<index>>) @@ q
    ELSE q

\* _read: quant is the quantifier group of a variant line, a list of
\* (handler, index) token pairs; every pair is registered in line order
RECURSIVE register_quant(_, _, _)
register_quant(quant, k, q) ==
    IF k > Len(quant) THEN q
    ELSE register_quant(quant, k + 1, register(q, quant[k][1], quant[k][2]))

(***************************************************************************)
(* TranslationString                                                       *)
(***************************************************************************)
\* _tag_iter(i): '%N%' and '%N$+d' with N = i + 1 (i is 0-based)
Tag1(i) == <<"%">> \o StrNat(i + 1) \o <<"%">>
Tag2(i) == <<"%">> \o StrNat(i + 1) \o <<"$", "+", "d">>

\* _replace(i, s, rpl) -> (new, s == new)
ReplaceNew(i, s, rpl) == StrReplace(StrReplace(s, Tag1(i), rpl), Tag2(i), rpl)

\* str(val) or '(%s to %s)' % tuple(val)
Rpl(val, isr) ==
    IF isr THEN <<"(">> \o StrInt(val[1]) \o <<" ", "t", "o", " ">>
                \o StrInt(val[2]) \o <<")">>
    ELSE StrInt(val[1])

\* the only_values loop of format_string
RECURSIVE FormatOnlyValues(_, _, _, _, _)
FormatOnlyValues(s, values, i, rtr, unused) ==
    IF i >= Len(values) THEN [out |-> rtr, unused |-> unused]
    ELSE LET value == values[i + 1]
             r1 == IF Contains(Tag1(i), s) THEN <<rtr \o <<value>>, unused>>
                   ELSE <<rtr, unused \o <<value>>>>
             r2 == IF Contains(Tag2(i), s) THEN <<r1[1] \o <<value>>, r1[2]>>
                   ELSE <<r1[1], r1[2] \o <<value>>>>
         IN  FormatOnlyValues(s, values, i + 1, r2[1], r2[2])

\* the use_placeholder loop going back to 'a' behind 'z'
RECURSIVE FormatPlaceholderWrap(_, _, _, _)
FormatPlaceholderWrap(s, values, i, unused) ==
    IF i >= Len(values) THEN [out |-> s, unused |-> unused]
    ELSE LET new == ReplaceNew(i, s, <<ascii_letters[((23 + i) % 26) + 1]>>)
         IN  FormatPlaceholderWrap(new, values, i + 1,
                               IF s = new THEN unused \o <<values[i + 1]>> ELSE unused)

\* the use_placeholder loop of format_string
RECURSIVE FormatPlaceholder(_, _, _, _)
FormatPlaceholder(s, values, i, unused) ==
    IF i >= Len(values) THEN [out |-> s, unused |-> unused]
    ELSE LET new == ReplaceNew(i, s, <<ascii_letters[23 + i + 1]>>)
         IN  FormatPlaceholder(new, values, i + 1,
                               IF s = new THEN unused \o <<values[i + 1]>> ELSE unused)

\* the final loop of format_string
RECURSIVE FormatLiteral(_, _, _, _, _)
FormatLiteral(s, values, is_range, i, unused) ==
    IF i >= Len(values) THEN [out |-> s, unused |-> unused]
    ELSE LET new == ReplaceNew(i, s, Rpl(values[i + 1], is_range[i + 1]))
         IN  FormatLiteral(new, values, is_range, i + 1,
                           IF s = new THEN unused \o <<values[i + 1]>> ELSE unused)

format_string(ts, values, is_range, use_placeholder, only_values) ==
    LET s == StrReplace(ts.string, <<"%", "%">>, <<"%">>)
        hv == handle(ts.quantifier, values, is_range)
    IN  IF only_values THEN FormatOnlyValues(s, hv, 0, <<>>, <<>>)
        ELSE IF use_placeholder THEN FormatPlaceholder(s, hv, 0, <<>>)
        ELSE FormatLiteral(s, hv, is_range, 0, <<>>)

\* match_range: indexes are 0-based positions into self.range
RECURSIVE match_range_loop(_, _, _, _, _)
match_range_loop(ts, values, indexes, k, rating) ==
    IF k > Len(indexes) THEN rating
    ELSE match_range_loop(ts, values, indexes, k + 1,
             rating + in_range(ts.range[indexes[k] + 1], values[indexes[k] + 1]))

match_range(ts, values, indexes) == match_range_loop(ts, values, indexes, 1, 0)

(***************************************************************************)
(* TranslationLanguage.get_string                                          *)
(***************************************************************************)
\* hasattr(item, '__iter__')
IsIter(item) == Len(item) = 2

test_values_of(values) == [k \in 1..Len(values) |-> values[k][1]]

short_values_of(values) ==
    [k \in 1..Len(values) |->
        IF IsIter(values[k]) /\ values[k][1] = values[k][2] THEN <<values[k][1]>>
        ELSE values[k]]

is_range_of(values) ==
    [k \in 1..Len(values) |-> IsIter(values[k]) /\ values[k][1] # values[k][2]]

\* temp = [(match, ts) for ts in self.strings]
TempOf(tl, test_values, indexes) ==
    [k \in 1..Len(tl.strings) |->
        <<match_range(tl.strings[k], test_values, indexes), tl.strings[k]>>]

\* an unstable sort: an element goes in front of the elements of equal key
InsertByKeyUnstable(sorted, e) ==
    LET later == {p \in 1..Len(sorted) : -sorted[p][1] >= -e[1]}
        pos == IF later = {} THEN Len(sorted) + 1
               ELSE CHOOSE p \in later : \A q \in later : p <= q
    IN  SubSeq(sorted, 1, pos - 1) \o <<e>> \o SubSeq(sorted, pos, Len(sorted))

\* list.sort(key=lambda x: -x[0]) is stable: an element goes behind every
\* element already placed whose key is not greater than its own
InsertByKey(sorted, e) ==
    LET later == {p \in 1..Len(sorted) : -sorted[p][1] > -e[1]}
        pos == IF later = {} THEN Len(sorted) + 1
               ELSE CHOOSE p \in later : \A q \in later : p <= q
    IN  SubSeq(sorted, 1, pos - 1) \o <<e>> \o SubSeq(sorted, pos, Len(sorted))

RECURSIVE SortTemp(_, _, _)
SortTemp(temp, k, sorted) ==
    IF k > Len(temp) THEN sorted
    ELSE SortTemp(temp, k + 1, InsertByKey(sorted, temp[k]))

\* returns [raised, ts, out, unused]; temp[0] of an empty list raises IndexError
get_string(tl, values, indexes, use_placeholder, only_values) ==
    LET temp == SortTemp(TempOf(tl, test_values_of(values), indexes), 1, <<>>)
    IN  IF Len(temp) = 0
        THEN [raised |-> "IndexError", ts |-> None, out |-> <<>>, unused |-> <<>>]
        ELSE LET r == format_string(temp[1][2], short_values_of(values),
                                    is_range_of(values), use_placeholder, only_values)
             IN  [raised |-> "no", ts |-> temp[1][2], out |-> r.out, unused |-> r.unused]

(***************************************************************************)
(* Translation.get_language                                                *)
(***************************************************************************)
\* get_language returning the English bundle as soon as it is seen
RECURSIVE get_language_loop_early(_, _, _, _)
get_language_loop_early(languages, language, k, etr) ==
    IF k > Len(languages) THEN etr
    ELSE IF languages[k].language = language THEN languages[k]
    ELSE IF languages[k].language = "English" THEN languages[k]
    ELSE get_language_loop_early(languages, language, k + 1, etr)

RECURSIVE get_language_loop(_, _, _, _)
get_language_loop(languages, language, k, etr) ==
    IF k > Len(languages) THEN etr
    ELSE IF languages[k].language = language THEN languages[k]
    ELSE IF languages[k].language = "English"
         THEN get_language_loop(languages, language, k + 1, languages[k])
         ELSE get_language_loop(languages, language, k + 1, etr)

get_language(tr, language) == get_language_loop(tr.languages, language, 1, None)

(***************************************************************************)
(* TranslationFile: _translations and _translations_hash                   *)
(***************************************************************************)
\* a file value: the ordered list, the index, and the number of
\* DuplicateIdentifierWarning raised while it was changed
File(tl, h, w) == [translations |-> tl, hash |-> h, warned |-> w]

EmptyFile == File(<<>>, <<>>, 0)

\* translation_id in self._translations_hash
HasKey(h, id) == \E k \in 1..Len(h) : h[k][1] = id

KeyPos(h, id) == CHOOSE k \in 1..Len(h) : h[k][1] = id

\* self._translations_hash[translation_id]
Bucket(h, id) == h[KeyPos(h, id)][2]

\* self._translations_hash[translation_id] = b
SetBucket(h, id, b) ==
    IF HasKey(h, id) THEN [h EXCEPT ![KeyPos(h, id)] = <<id, b>>]
    ELSE Append(h, <<id, b>>)

\* the for loop of _add_translation_hashed; the loop iterates over the
\* bucket list object while the body appends to that same object, so the
\* iteration also visits the elements appended by earlier iterations
RECURSIVE AddHashedLoop(_, _, _, _)
AddHashedLoop(f, id, t, k) ==
    LET b == Bucket(f.hash, id)
    IN  IF k > Len(b) THEN f
        ELSE IF t = b[k] THEN f
        ELSE IF t.ids = b[k].ids
             THEN File(RemoveFirst(f.translations, b[k]),
                       SetBucket(f.hash, id, <<t>>), f.warned)
        ELSE AddHashedLoop(File(f.translations,
                                SetBucket(f.hash, id, Append(b, t)),
                                f.warned + 1),
                           id, t, k + 1)

add_translation_hashed(f, id, t) ==
    IF HasKey(f.hash, id) THEN AddHashedLoop(f, id, t, 1)
    ELSE File(f.translations, SetBucket(f.hash, id, <<t>>), f.warned)

\* for translation_id in translation.ids: self._add_translation_hashed(...)
RECURSIVE AddForIds(_, _, _)
AddForIds(f, t, k) ==
    IF k > Len(t.ids) THEN f
    ELSE AddForIds(add_translation_hashed(f, t.ids[k], t), t, k + 1)

\* the end of a description block in _read
read_description(f, t) ==
    AddForIds(File(Append(f.translations, t), f.hash, f.warned), t, 1)

\* a file whose text holds the descriptions ds, in that order
RECURSIVE ReadAll(_, _, _)
ReadAll(f, ds, k) ==
    IF k > Len(ds) THEN f ELSE ReadAll(read_description(f, ds[k]), ds, k + 1)

FileOf(ds) == ReadAll(EmptyFile, ds, 1)

\* for trans in other._translations_hash[trans_id]
RECURSIVE MergeBucket(_, _, _, _)
MergeBucket(f, id, b, k) ==
    IF k > Len(b) THEN f
    ELSE MergeBucket(add_translation_hashed(f, id, b[k]), id, b, k + 1)

\* for trans_id in other._translations_hash
RECURSIVE MergeKeys(_, _, _)
MergeKeys(f, oh, k) ==
    IF k > Len(oh) THEN f
    ELSE MergeKeys(MergeBucket(f, oh[k][1], oh[k][2], 1), oh, k + 1)

\* merge that takes nothing from the other file
merge_nothing(f, o) == f

\* merge(other)
merge(f, o) ==
    MergeKeys(File(f.translations \o o.translations, f.hash, f.warned),
              o.hash, 1)

(***************************************************************************)
(* TranslationFile.get_translation (full_result=True)                      *)
(***************************************************************************)
\* 0xFFFFFFFF in the source.  TLC integers end at 2^31 - 1, so the model
\* uses the largest representable integer in its place: like the source's
\* constant it is an ordinary int that a caller can pass as a value.
Sentinel == 2147483647

\* v = [0xFFFFFFFF for i in range(0, len(tr.ids))]; v[index] = values[i]
FreshValues(tr, index, value) ==
    [k \in 1..Len(tr.ids) |-> IF k = index + 1 THEN value ELSE <<Sentinel>>]

\* the loop body without the "tr in trans_found" test
ScanOneAlwaysNew(st, tr, tag, value) ==
    LET index == ListIndex(tag, tr.ids) - 1
    IN  [st EXCEPT !.found = Append(@, tr),
                   !.indexes = Append(@, <<index>>),
                   !.values = Append(@, FreshValues(tr, index, value))]

\* the body of "for tr in self._translations_hash[tag]" for one tr
ScanOne(st, tr, tag, value) ==
    LET index == ListIndex(tag, tr.ids) - 1
    IN  IF InList(tr, st.found)
        THEN LET tf == ListIndex(tr, st.found)
             IN  [st EXCEPT !.indexes[tf] = Append(@, index),
                            !.values[tf][index + 1] = value]
        ELSE [st EXCEPT !.found = Append(@, tr),
                        !.indexes = Append(@, <<index>>),
                        !.values = Append(@, FreshValues(tr, index, value))]

RECURSIVE ScanBucket(_, _, _, _, _)
ScanBucket(st, b, k, tag, value) ==
    IF k > Len(b) THEN st
    ELSE ScanBucket(ScanOne(st, b[k], tag, value), b, k + 1, tag, value)

\* the scan with "break" in the place of "continue" for an unknown tag
RECURSIVE ScanTagsBreak(_, _, _, _, _)
ScanTagsBreak(st, h, tags, values, i) ==
    IF i > Len(tags) THEN st
    ELSE IF i > Len(values) THEN [st EXCEPT !.raised = "IndexError", !.at = "scan"]
    ELSE IF ~HasKey(h, tags[i])
         THEN [st EXCEPT !.missing_ids = Append(@, tags[i]),
                         !.missing_values = Append(@, values[i])]
         ELSE ScanTagsBreak(ScanBucket(st, Bucket(h, tags[i]), 1, tags[i], values[i]),
                            h, tags, values, i + 1)

\* for i, tag in enumerate(tags); values[i] raises IndexError past the end
RECURSIVE ScanTags(_, _, _, _, _)
ScanTags(st, h, tags, values, i) ==
    IF i > Len(tags) THEN st
    ELSE IF i > Len(values) THEN [st EXCEPT !.raised = "IndexError", !.at = "scan"]
    ELSE IF ~HasKey(h, tags[i])
         THEN ScanTags([st EXCEPT !.missing_ids = Append(@, tags[i]),
                                  !.missing_values = Append(@, values[i])],
                       h, tags, values, i + 1)
         ELSE ScanTags(ScanBucket(st, Bucket(h, tags[i]), 1, tags[i], values[i]),
                       h, tags, values, i + 1)

\* for i, values in enumerate(trans_found_values): ... invalid.append(...)
RECURSIVE CollectInvalid(_, _, _)
CollectInvalid(st, i, invalid) ==
    IF i > Len(st.values) THEN invalid
    ELSE CollectInvalid(st, i + 1,
             IF InList(<<Sentinel>>, st.values[i])
             THEN Append(invalid, st.found[i]) ELSE invalid)

\* removal that moves the last entry into the freed slot
DelSwap(s, i) == [k \in 1..(Len(s) - 1) |-> IF k = i THEN s[Len(s)] ELSE s[k]]

DelFoundSwap(st, index) ==
    [st EXCEPT !.found = DelSwap(@, index),
               !.indexes = DelSwap(@, index),
               !.values = DelSwap(@, index)]

\* del trans_found[index]; del trans_found_indexes[index]; del trans_found_values[index]
DelFound(st, index) ==
    [st EXCEPT !.found = DelAt(@, index),
               !.indexes = DelAt(@, index),
               !.values = DelAt(@, index)]

\* removal of the invalid translations from trans_found alone
RECURSIVE RemoveInvalidFoundOnly(_, _, _)
RemoveInvalidFoundOnly(st, invalid, k) ==
    IF k > Len(invalid) THEN st
    ELSE RemoveInvalidFoundOnly(
             [st EXCEPT !.found = DelAt(@, ListIndex(invalid[k], st.found))],
             invalid, k + 1)

\* for tr in invalid: index = trans_found.index(tr); del ...[index]
RECURSIVE RemoveInvalid(_, _, _)
RemoveInvalid(st, invalid, k) ==
    IF k > Len(invalid) THEN st
    ELSE RemoveInvalid(DelFound(st, ListIndex(invalid[k], st.found)), invalid, k + 1)

\* for i, tr in enumerate(trans_found): tl = tr.get_language(lang); ...
RECURSIVE RenderFound(_, _, _, _, _)
RenderFound(st, i, lang, use_placeholder, only_values) ==
    IF i > Len(st.found) THEN st
    ELSE LET tl == get_language(st.found[i], lang)
         IN  IF tl = None
             THEN [st EXCEPT !.raised = "AttributeError", !.at = "get_language"]
             ELSE LET r == get_string(tl, st.values[i], st.indexes[i],
                                      use_placeholder, only_values)
                  IN  IF r.raised # "no"
                      THEN [st EXCEPT !.raised = r.raised, !.at = "get_string"]
                      ELSE RenderFound([st EXCEPT !.lines = Append(@, r.out),
                                                  !.values_unused = Append(@, r.unused)],
                                       i + 1, lang, use_placeholder, only_values)

ScanInit ==
    [raised |-> "no", at |-> "", found |-> <<>>, indexes |-> <<>>, values |-> <<>>,
     missing_ids |-> <<>>, missing_values |-> <<>>, invalid |-> <<>>,
     lines |-> <<>>, values_unused |-> <<>>]

get_translation(h, tags, values, lang, use_placeholder, only_values) ==
    LET scanned == ScanTags(ScanInit, h, tags, values, 1)
    IN  IF scanned.raised # "no" THEN scanned
        ELSE LET invalid == CollectInvalid(scanned, 1, <<>>)
                 valid == [RemoveInvalid(scanned, invalid, 1) EXCEPT !.invalid = invalid]
             IN  RenderFound(valid, 1, lang, use_placeholder, only_values)

(***************************************************************************)
(* The descriptions read by the files and the queries made on them        *)
(***************************************************************************)
NoQuantifier == <<>>

TString(rng, str, quant) == [range |-> rng, string |-> str, quantifier |-> quant]

TLanguage(lang, strs) == [language |-> lang, strings |-> strs]

TTranslation(ids, langs) == [ids |-> ids, languages |-> langs]

Wild == Rng(None, None)

\* description 1 a / 1 / # "%1%f" / lang "German" / 1 / 5|# "G"
TA1 == TTranslation(<<"a">>,
         <<TLanguage("English",
             <<TString(<<Wild>>, <<"%", "1", "%", "f">>, NoQuantifier)>>),
           TLanguage("German",
             <<TString(<<Rng(<<5>>, None)>>, <<"G">>, NoQuantifier)>>)>>)

\* description 1 a / 2 / 5|# "A" / # "%1%g"
TA2 == TTranslation(<<"a">>,
         <<TLanguage("English",
             <<TString(<<Rng(<<5>>, None)>>, <<"A">>, NoQuantifier),
               TString(<<Rng(<<5>>, <<9>>)>>, <<"%", "1", "%", "g">>, NoQuantifier)>>)>>)

\* description 2 b a / 1 / # # "%1%&%2%"
TBA == TTranslation(<<"b", "a">>,
         <<TLanguage("English",
             <<TString(<<Wild, Wild>>, <<"%", "1", "%", "&", "%", "2", "%">>, NoQuantifier)>>)>>)

\* description 2 a c / 1 / # # "%1%/%2%"
TAC == TTranslation(<<"a", "c">>,
         <<TLanguage("English",
             <<TString(<<Wild, Wild>>, <<"%", "1", "%", "/", "%", "2", "%">>, NoQuantifier)>>)>>)

Descriptions == {TA1, TA2, TBA, TAC}

\* "c" is never supplied; "b" is unknown to the files without the (b, a)
\* description, and every id is unknown to the empty file
QueryIds == {"a", "b"}

QueryValues == {<<1>>, <<Sentinel>>}

Languages == {"English", "German"}

NoResult == [op |-> "none"]

(***************************************************************************)
(* Operations on the two files                                             *)
(***************************************************************************)
Self == File(translations, translations_hash, 0)

\* _read reaches the end of a description block of the first file
Read ==
    /\ ops < MaxOps
    /\ \E t \in Descriptions :
         LET f == read_description(Self, t)
         IN  /\ translations' = f.translations
             /\ translations_hash' = f.hash
             /\ warned' = f.warned
    /\ ops' = ops + 1
    /\ result' = NoResult
    /\ UNCHANGED <<other, rcall, scall, fcall, cacheVars, hcall, pcall>>

\* the same for the second file
ReadOther ==
    /\ ops < MaxOps
    /\ \E t \in Descriptions :
         LET f == read_description(File(other.translations, other.hash, 0), t)
         IN  /\ other' = [translations |-> f.translations, hash |-> f.hash]
             /\ warned' = f.warned
    /\ ops' = ops + 1
    /\ result' = NoResult
    /\ UNCHANGED <<translations, translations_hash, rcall, scall, fcall, cacheVars, hcall, pcall>>

\* self.merge(other): an include directive or a direct call
Merge ==
    /\ ops < MaxOps
    /\ LET f == merge(Self, other)
       IN  /\ translations' = f.translations
           /\ translations_hash' = f.hash
           /\ warned' = f.warned
    /\ ops' = ops + 1
    /\ result' = NoResult
    /\ UNCHANGED <<other, rcall, scall, fcall, cacheVars, hcall, pcall>>

\* get_translation(tags, values, lang, full_result=True) on the first file.
\* The call only reads the file, so a query made while the result of the
\* previous one is still held adds no behaviour: it is left out.
Query ==
    /\ result = NoResult
    /\ \E tags \in SeqsUpTo(QueryIds, MaxTags), lang \in Languages :
         \E values \in [1..Len(tags) -> QueryValues] :
            result' = [op |-> "get_translation", tags |-> tags, values |-> values,
                       lang |-> lang,
                       res |-> get_translation(translations_hash, tags, values,
                                               lang, FALSE, FALSE)]
    /\ warned' = 0
    /\ UNCHANGED <<translations, translations_hash, other, ops, rcall, scall, fcall, cacheVars, hcall, pcall>>

\* the same call with len(values) # len(tags)
QueryMismatch ==
    /\ result = NoResult
    /\ \E tags \in SeqsUpTo(QueryIds, MaxTags), n \in 0..MaxTags :
         /\ n # Len(tags)
         /\ LET values == [k \in 1..n |-> <<1>>]
            IN  result' = [op |-> "get_translation", tags |-> tags, values |-> values,
                           lang |-> "English",
                           res |-> get_translation(translations_hash, tags, values,
                                                   "English", FALSE, FALSE)]
    /\ warned' = 0
    /\ UNCHANGED <<translations, translations_hash, other, ops, rcall, scall, fcall, cacheVars, hcall, pcall>>

InitFile ==
    /\ translations = <<>>
    /\ translations_hash = <<>>
    /\ warned = 0
    /\ other = [translations |-> <<>>, hash |-> <<>>]
    /\ ops = 0
    /\ result = NoResult

Init ==
    /\ InitFile
    /\ rcall = NoCall
    /\ scall = NoCall
    /\ fcall = NoCall
    /\ NoCache
    /\ hcall = NoCall
    /\ pcall = NoCall

Next == Read \/ ReadOther \/ Merge \/ Query \/ QueryMismatch

Spec == Init /\ [][Next]_vars

\* in_range applied to every range and value within the bound
NextRange == CallInRange

InitRange ==
    /\ InitFile
    /\ rcall \in RangeArgs
    /\ scall = NoCall
    /\ fcall = NoCall
    /\ NoCache
    /\ hcall = NoCall
    /\ pcall = NoCall

SpecRange == InitRange /\ [][NextRange]_vars

(***************************************************************************)
(* Variant selection: tl = tr.get_language(lang); tl.get_string(...)       *)
(***************************************************************************)
\* # "%1%f" / 100|# "A" / #|0 "C"
FreezeStrings ==
    <<TString(<<Wild>>, <<"%", "1", "%", "f">>, NoQuantifier),
      TString(<<Rng(<<100>>, None)>>, <<"A">>, NoQuantifier),
      TString(<<Rng(None, <<0>>)>>, <<"C">>, NoQuantifier)>>

SFreeze == TTranslation(<<"a">>, <<TLanguage("English", FreezeStrings)>>)

\* 0|# "P" / #|100 "Q" / # "R": the first two tie on 0..100
STie == TTranslation(<<"a">>,
          <<TLanguage("English",
              <<TString(<<Rng(<<0>>, None)>>, <<"P">>, NoQuantifier),
                TString(<<Rng(None, <<100>>)>>, <<"Q">>, NoQuantifier),
                TString(<<Wild>>, <<"R">>, NoQuantifier)>>)>>)

\* # # "%1%&%2%" / 1|5 7 "X%1%", and a German section declared after English
SPair == TTranslation(<<"a", "b">>,
           <<TLanguage("English",
               <<TString(<<Wild, Wild>>, <<"%", "1", "%", "&", "%", "2", "%">>, NoQuantifier),
                 TString(<<Rng(<<1>>, <<5>>), Rng(<<7>>, <<7>>)>>, <<"X", "%", "1", "%">>,
                         NoQuantifier)>>),
             TLanguage("German",
               <<TString(<<Wild, Wild>>, <<"%", "2", "%", "u", "%", "1", "%">>,
                         NoQuantifier)>>)>>)

\* description 1 b / 1 / #|1 "E%1%" / lang "German" / 1 / 2|# "G%1%"
TB == TTranslation(<<"b">>,
        <<TLanguage("English",
            <<TString(<<Rng(None, <<1>>)>>, <<"E", "%", "1", "%">>, NoQuantifier)>>),
          TLanguage("German",
            <<TString(<<Rng(<<2>>, None)>>, <<"G", "%", "1", "%">>, NoQuantifier)>>)>>)

\* a translation built with the German bundle in front of the English one
SGermanFirst == TTranslation(<<"a">>,
                  <<TLanguage("German",
                      <<TString(<<Wild>>, <<"g", "%", "1", "%">>, NoQuantifier)>>),
                    TLanguage("English",
                      <<TString(<<Wild>>, <<"e", "%", "1", "%">>, NoQuantifier)>>)>>)

StringTranslations == {SFreeze, STie, SPair, SGermanFirst, TB}

TestValues == {<<-1>>, <<1>>, <<50>>, <<100>>, <<3, 7>>, <<5, 5>>}

RenderLanguages == {"English", "German", "French"}

RenderArgs ==
    UNION {{[op |-> "args", tr |-> tr, lang |-> lang, values |-> values,
             indexes |-> indexes] :
               lang \in RenderLanguages,
               values \in [1..Len(tr.ids) -> TestValues],
               indexes \in SeqsUpTo(0..(Len(tr.ids) - 1), Len(tr.ids))} :
           tr \in StringTranslations}

\* lines 831-832 of get_translation for one translation of trans_found
Render ==
    /\ scall.op = "args"
    /\ LET tl == get_language(scall.tr, scall.lang)
           r == IF tl = None
                THEN [raised |-> "AttributeError", ts |-> None, out |-> <<>>,
                      unused |-> <<>>]
                ELSE get_string(tl, scall.values, scall.indexes, FALSE, FALSE)
       IN  scall' = [op |-> "render", tr |-> scall.tr, lang |-> scall.lang,
                     values |-> scall.values, indexes |-> scall.indexes,
                     tl |-> tl, raised |-> r.raised,
                     ts |-> r.ts, out |-> r.out, unused |-> r.unused]
    /\ UNCHANGED <<fileVars, rcall, fcall, cacheVars, hcall, pcall>>

NextString == Render

InitString ==
    /\ InitFile
    /\ rcall = NoCall
    /\ scall \in RenderArgs
    /\ fcall = NoCall
    /\ NoCache
    /\ hcall = NoCall
    /\ pcall = NoCall

SpecString == InitString /\ [][NextString]_vars

(***************************************************************************)
(* format_string on one variant                                            *)
(***************************************************************************)
\* '%1% %2% ... %n%'
RECURSIVE TagsJoined(_)
TagsJoined(n) == IF n = 1 THEN Tag1(0) ELSE TagsJoined(n - 1) \o <<" ">> \o Tag1(n - 1)

FormatLine(n, str, quant) == [n |-> n, string |-> str, quant |-> quant]

\* variant lines: the number of values, the text, the quantifier tokens
FormatLines ==
    { FormatLine(1, <<"%", "1", "%", "%", " ", "r", "e", "d", "u", "c", "e", "d",
                      " ", "d", "a", "m", "a", "g", "e">>, <<<<"negate", 1>>>>),
      FormatLine(1, <<"%", "1", "$", "+", "d", " ", "x">>, <<<<"negate", 1>>>>),
      FormatLine(1, <<"%", "1", "%">>, <<<<"negate", 1>>, <<"negate", 1>>>>),
      FormatLine(1, <<"%", "1", "%", "s">>,
                 <<<<"deciseconds_to_seconds", 1>>, <<"negate", 1>>>>),
      FormatLine(2, <<"%", "1", "%", " ", "%", "2", "$", "+", "d">>, <<>>),
      FormatLine(2, <<"%", "2", "%">>, <<<<"negate", 2>>, <<"multiplicative_damage_modifier", 1>>>>),
      FormatLine(MaxArity, TagsJoined(MaxArity), <<>>),
      FormatLine(MaxArity, Tag1(0) \o <<" ">> \o Tag1(MaxArity - 1), <<>>) }

\* the values get_string passes: scalars, and pairs with different ends
FormatValues(n) ==
    IF n < MaxArity THEN {<<-5>>, <<0>>, <<5>>, <<3, 7>>} ELSE {<<1>>, <<3, 7>>}

FormatArgs ==
    UNION { { [op |-> "args", line |-> ln, values |-> values,
               use_placeholder |-> ph, only_values |-> ov] :
                 values \in [1..ln.n -> FormatValues(ln.n)],
                 ph \in BOOLEAN, ov \in BOOLEAN } :
            ln \in FormatLines }

\* the variant _read builds from a line, then format_string on it
Format ==
    /\ fcall.op = "args"
    /\ LET ts == TString([k \in 1..fcall.line.n |-> Wild], fcall.line.string,
                         register_quant(fcall.line.quant, 1, NoQuantifier))
           r == format_string(ts, fcall.values, is_range_of(fcall.values),
                              fcall.use_placeholder, fcall.only_values)
       IN  fcall' = [op |-> "format_string", line |-> fcall.line, ts |-> ts,
                     values |-> fcall.values,
                     is_range |-> is_range_of(fcall.values),
                     use_placeholder |-> fcall.use_placeholder,
                     only_values |-> fcall.only_values,
                     out |-> r.out, unused |-> r.unused]
    /\ UNCHANGED <<fileVars, rcall, scall, cacheVars, hcall, pcall>>

NextFormat == Format

InitFormat ==
    /\ InitFile
    /\ rcall = NoCall
    /\ scall = NoCall
    /\ fcall \in FormatArgs
    /\ NoCache
    /\ hcall = NoCall
    /\ pcall = NoCall

SpecFormat == InitFormat /\ [][NextFormat]_vars

(***************************************************************************)
(* TranslationFileCache                                                    *)
(***************************************************************************)
\* a path below the Metadata directory
Metadata(x) == <<"Metadata", x>>

\* the items _read finds in a text: description blocks and include lines
Describe(t) == [kind |-> "description", t |-> t]

Include(path) == [kind |-> "include", path |-> path]

OneString(ids, str) ==
    TTranslation(ids, <<TLanguage("English",
        <<TString([k \in 1..Len(ids) |-> Wild], str, NoQuantifier)>>)>>)

\* description 1 a / 1 / # "A"     (and "B", and the overlay's "C")
TXA == OneString(<<"a">>, <<"A">>)

TXB == OneString(<<"a">>, <<"B">>)

TXC == OneString(<<"a">>, <<"C">>)

\* description 1 b / 1 / # "Y"     (and the overlay's "Z")
TY == OneString(<<"b">>, <<"Y">>)

TYZ == OneString(<<"b">>, <<"Z">>)

\* base includes left and right, both include leaf
DiskDiamond ==
    (Metadata("base") :> <<Include(Metadata("left")), Include(Metadata("right"))>>)
    @@ (Metadata("left") :> <<Include(Metadata("leaf")), Describe(TY)>>)
    @@ (Metadata("right") :> <<Include(Metadata("leaf"))>>)
    @@ (Metadata("leaf") :> <<Describe(TXA)>>)

\* base declares (a) itself, then includes a file that declares (a)
DiskAfter ==
    (Metadata("base") :> <<Describe(TXA), Include(Metadata("inc"))>>)
    @@ (Metadata("inc") :> <<Describe(TXB)>>)

\* base includes a file that declares (a), then declares (a) itself
DiskBefore ==
    (Metadata("base") :> <<Include(Metadata("inc")), Describe(TXA)>>)
    @@ (Metadata("inc") :> <<Describe(TXB)>>)

\* a file that includes itself
DiskLoop ==
    (Metadata("loop") :> <<Describe(TXA), Include(Metadata("loop"))>>)

Disks == {DiskDiamond, DiskAfter, DiskBefore, DiskLoop}

\* merge_with_custom_file: None, or a TranslationFile
CustomFiles == {None, FileOf(<<TXC>>), FileOf(<<TYZ>>)}

\* the cache: _files and, for every path, the number of objects built from it
Cache(fs, ld) == [files |-> fs, loads |-> ld]

\* a TranslationFile object in _files; gen tells the objects of one path apart
Obj(f, gen) == [translations |-> f.translations, hash |-> f.hash, gen |-> gen]

\* name in self._files, answering no for every name
InFilesNever(c, name) == FALSE

\* name in self._files
InFiles(c, name) == name \in DOMAIN c.files

\* get_file that stores the file it read and leaves the custom file out
StoreAndMergePlain(c, name, f, custom) ==
    [c EXCEPT !.files = (name :> Obj(f, c.loads[name])) @@ c.files]

\* self._files[name] = TranslationFile(...), then
\* if self._custom_file: self._files[name].merge(self._custom_file)
StoreAndMerge(c, name, f, custom) ==
    LET stored == (name :> Obj(f, c.loads[name])) @@ c.files
    IN  [c EXCEPT !.files =
            IF custom # None
            THEN [stored EXCEPT ![name] = Obj(merge(File(@.translations, @.hash, 0),
                                                    custom), @.gen)]
            ELSE stored]

RECURSIVE get_file_at(_, _, _)
RECURSIVE read_from(_, _, _, _, _)
\* _read of the text of name from item k on, into the file f; an include is
\* self.merge(self._parent.get_file(path))
read_from(c, f, name, k, depth) ==
    IF k > Len(disk[name]) THEN [cache |-> c, file |-> f, raised |-> "no"]
    ELSE LET item == disk[name][k]
         IN  IF item.kind = "description"
             THEN read_from(c, read_description(f, item.t), name, k + 1, depth)
             ELSE LET g == get_file_at(c, item.path, depth + 1)
                  IN  IF g.raised # "no"
                      THEN [cache |-> g.cache, file |-> f, raised |-> g.raised]
                      ELSE read_from(g.cache, merge(f, g.cache.files[item.path]),
                                     name, k + 1, depth)

\* get_file(name) as the depth-th nested call; the interpreter raises
\* RecursionError when the calls nest too deep
get_file_at(c, name, depth) ==
    IF depth > MaxDepth THEN [cache |-> c, raised |-> "RecursionError"]
    ELSE IF InFiles(c, name) THEN [cache |-> c, raised |-> "no"]
    ELSE LET c1 == [c EXCEPT !.loads[name] = @ + 1]
             r == read_from(c1, EmptyFile, name, 1, depth)
         IN  IF r.raised # "no" THEN [cache |-> r.cache, raised |-> r.raised]
             ELSE [cache |-> StoreAndMerge(r.cache, name, r.file, custom_file),
                   raised |-> "no"]

get_file(c, name) == get_file_at(c, name, 1)

\* __getitem__: 'Metadata/' is put in front of an item that lacks it
getitem_name(item) ==
    IF Len(item) >= 2 /\ item[1] = "Metadata" THEN item ELSE <<"Metadata">> \o item

Called(op, name, r) ==
    /\ files' = r.cache.files
    /\ loads' = r.cache.loads
    /\ gets' = gets + 1
    /\ got' = [op |-> op, name |-> name, raised |-> r.raised,
               gen |-> IF r.raised = "no" THEN r.cache.files[name].gen ELSE 0]
    /\ UNCHANGED <<disk, custom_file, fileVars, rcall, scall, fcall, hcall, pcall>>

\* cache.get_file(name)
GetFile ==
    /\ gets < MaxGets
    /\ \E name \in DOMAIN disk :
         Called("get_file", name, get_file(Cache(files, loads), name))

\* cache[item]
GetItem ==
    /\ gets < MaxGets
    /\ \E path \in DOMAIN disk : \E item \in {path, Tail(path)} :
         Called("getitem", getitem_name(item),
                get_file(Cache(files, loads), getitem_name(item)))

\* get_translation on a file the cache has returned
QueryCached ==
    /\ got.op \in {"get_file", "getitem"}
    /\ got.raised = "no"
    /\ \E id \in QueryIds :
         got' = [op |-> "get_translation", name |-> got.name, tags |-> <<id>>,
                 values |-> <<<<1>>>>,
                 res |-> get_translation(files[got.name].hash, <<id>>, <<<<1>>>>,
                                         "English", FALSE, FALSE)]
    /\ UNCHANGED <<disk, custom_file, files, loads, gets, fileVars, rcall, scall, fcall,
                   hcall, pcall>>

NextCache == GetFile \/ GetItem \/ QueryCached

\* TranslationFileCache(base_dir, merge_with_custom_file)
InitCache ==
    /\ InitFile
    /\ rcall = NoCall
    /\ scall = NoCall
    /\ fcall = NoCall
    /\ disk \in Disks
    /\ custom_file \in CustomFiles
    /\ files = <<>>
    /\ loads = [p \in DOMAIN disk |-> 0]
    /\ gets = 0
    /\ got = NoCall
    /\ hcall = NoCall
    /\ pcall = NoCall

SpecCache == InitCache /\ [][NextCache]_vars

(***************************************************************************)
(* _add_translation_hashed on a loaded file                                *)
(***************************************************************************)
\* the files the calls are made on: every text of up to MaxOps descriptions
HashedFiles == {FileOf(ds) : ds \in SeqsUpTo(Descriptions, MaxOps)}

HashedArgs ==
    UNION { { [op |-> "args", file |-> f, id |-> t.ids[k], t |-> t] :
                 f \in HashedFiles, k \in 1..Len(t.ids) } :
            t \in Descriptions }

\* the state in which _read calls _add_translation_hashed: the translation
\* has been appended to the list; warned counts the warnings of the call alone
BeforeAdd(f, t) == File(Append(f.translations, t), f.hash, 0)

\* self._add_translation_hashed(translation_id, translation)
AddHashed ==
    /\ hcall.op = "args"
    /\ hcall' = [op |-> "add_translation_hashed", file |-> hcall.file,
                 id |-> hcall.id, t |-> hcall.t,
                 before |-> BeforeAdd(hcall.file, hcall.t),
                 after |-> add_translation_hashed(BeforeAdd(hcall.file, hcall.t),
                                                  hcall.id, hcall.t)]
    /\ UNCHANGED <<fileVars, rcall, scall, fcall, cacheVars, pcall>>

NextHashed == AddHashed

InitHashed ==
    /\ InitFile
    /\ rcall = NoCall
    /\ scall = NoCall
    /\ fcall = NoCall
    /\ NoCache
    /\ hcall \in HashedArgs
    /\ pcall = NoCall

SpecHashed == InitHashed /\ [][NextHashed]_vars

(***************************************************************************)
(* get_translation in every mode on a loaded file                          *)
(***************************************************************************)
\* description 1 a / 0 / lang "German" / 1 / # "G" : the English bundle is
\* declared with no variant
TZeroG == TTranslation(<<"a">>,
            <<TLanguage("English", <<>>),
              TLanguage("German", <<TString(<<Wild>>, <<"G">>, NoQuantifier)>>)>>)

\* description 1 a / 1 / # "%1%s" negate 1
TNeg == TTranslation(<<"a">>,
          <<TLanguage("English",
              <<TString(<<Wild>>, <<"%", "1", "%", "s">>, ("negate" :> <<1>>))>>)>>)

\* the texts the queried file is read from
QueryTexts ==
    {<<TZeroG, TY>>, <<TNeg, TBA>>}

QueryFiles == {FileOf(ds) : ds \in QueryTexts}

\* a value and a range of values, given for every tag of a query
TranslateValues == {<<1>>, <<6, 8>>}

\* a call that deletes from the file what the query did not find
TranslateAliased ==
    /\ ops < MaxCalls
    /\ \E tags \in SeqsUpTo(QueryIds, MaxTags), v \in TranslateValues,
          lang \in Languages, use_placeholder \in BOOLEAN, only_values \in BOOLEAN :
         LET values == [k \in 1..Len(tags) |-> v]
             res == get_translation(translations_hash, tags, values, lang,
                                    use_placeholder, only_values)
         IN  /\ result' = [op |-> "get_translation", tags |-> tags, values |-> values,
                           lang |-> lang, use_placeholder |-> use_placeholder,
                           only_values |-> only_values, res |-> res]
             /\ translations' = IF res.raised = "no" THEN res.found ELSE translations
    /\ translations_hash' = translations_hash
    /\ ops' = ops + 1
    /\ UNCHANGED <<warned, other, rcall, scall, fcall, cacheVars, hcall, pcall>>

\* get_translation(tags, values, lang, full_result=True, use_placeholder,
\* only_values): every list the call writes to is created by the call, so
\* self._translations and self._translations_hash are left as they are
Translate ==
    /\ ops < MaxCalls
    /\ \E tags \in SeqsUpTo(QueryIds, MaxTags), v \in TranslateValues,
          lang \in Languages, use_placeholder \in BOOLEAN, only_values \in BOOLEAN :
         LET values == [k \in 1..Len(tags) |-> v]
             res == get_translation(translations_hash, tags, values, lang,
                                    use_placeholder, only_values)
         IN  /\ result' = [op |-> "get_translation", tags |-> tags, values |-> values,
                           lang |-> lang, use_placeholder |-> use_placeholder,
                           only_values |-> only_values, res |-> res]
             /\ translations' = translations
    /\ translations_hash' = translations_hash
    /\ ops' = ops + 1
    /\ UNCHANGED <<warned, other, rcall, scall, fcall, cacheVars, hcall, pcall>>

NextQuery == Translate

InitQuery ==
    /\ \E f \in QueryFiles :
         /\ translations = f.translations
         /\ translations_hash = f.hash
    /\ warned = 0
    /\ other = [translations |-> <<>>, hash |-> <<>>]
    /\ ops = 0
    /\ result = NoResult
    /\ rcall = NoCall
    /\ scall = NoCall
    /\ fcall = NoCall
    /\ NoCache
    /\ hcall = NoCall
    /\ pcall = NoCall

SpecQuery == InitQuery /\ [][NextQuery]_vars

(***************************************************************************)
(* _read: one description block, from its tokens                           *)
(***************************************************************************)
IsDigit(c) == InList(c, DigitChars)

DigitVal(c) == ListIndex(c, DigitChars) - 1

RECURSIVE ParseNat(_, _)
ParseNat(s, acc) ==
    IF s = <<>> THEN acc ELSE ParseNat(Tail(s), acc * 10 + DigitVal(s[1]))

\* int(s) for s with the digits that follow its sign, if it has one
IntOf(s, digits) ==
    IF digits = <<>> \/ \E k \in 1..Len(digits) : ~IsDigit(digits[k])
    THEN [raised |-> "ValueError", value |-> 0]
    ELSE [raised |-> "no",
          value |-> IF s[1] = "-" THEN -ParseNat(digits, 0) ELSE ParseNat(digits, 0)]

\* int(s) of a token made of digits, '-', '|' and '#': [raised, value]
ParseInt(s) == IntOf(s, IF s # <<>> /\ s[1] = "-" THEN Tail(s) ELSE s)

\* regex_isnumber: ^[0-9\-]+$
regex_isnumber(s) ==
    /\ s # <<>>
    /\ \A k \in 1..Len(s) : IsDigit(s[k]) \/ s[k] = "-"

\* matchstr.split('|')
RECURSIVE SplitBar(_, _, _)
SplitBar(s, cur, parts) ==
    IF s = <<>> THEN Append(parts, cur)
    ELSE IF s[1] = "|" THEN SplitBar(Tail(s), <<>>, Append(parts, cur))
    ELSE SplitBar(Tail(s), Append(cur, s[1]), parts)

\* the bound that int() gave, as a value of a range
BoundOf(v) == [raised |-> v.raised, value |-> <<v.value>>]

\* int(minmax[k]) if minmax[k] != '#' else None
ParseBound(part) ==
    IF part = <<"#">> THEN [raised |-> "no", value |-> None]
    ELSE BoundOf(ParseInt(part))

\* value = int(matchstr); TranslationRange(value, value, parent=ts)
RangeOfNumber(v) == [raised |-> v.raised, range |-> Rng(<<v.value>>, <<v.value>>)]

\* TranslationRange(min, max, parent=ts); int() of min is evaluated first
RangeOfBounds(mn, mx) ==
    [raised |-> IF mn.raised # "no" THEN mn.raised ELSE mx.raised,
     range |-> Rng(mn.value, mx.value)]

RangeOfMinmax(minmax) == RangeOfBounds(ParseBound(minmax[1]), ParseBound(minmax[2]))

\* the body of "for i in range(0, id_count)" for one matchstr
parse_limiter(matchstr) ==
    IF matchstr = <<"#">> THEN [raised |-> "no", range |-> Rng(None, None)]
    ELSE IF regex_isnumber(matchstr) THEN RangeOfNumber(ParseInt(matchstr))
    ELSE IF InList("|", matchstr) THEN RangeOfMinmax(SplitBar(matchstr, <<>>, <<>>))
    ELSE [raised |-> "Exception", range |-> Rng(None, None)]

\* for i in range(0, id_count): matchstr = limiter[i]; limiter[i] past the
\* end of the line's limiters raises IndexError
RECURSIVE parse_limiters(_, _, _, _)
parse_limiters(limiter, id_count, i, ranges) ==
    IF i >= id_count THEN [raised |-> "no", range |-> ranges]
    ELSE IF i + 1 > Len(limiter) THEN [raised |-> "IndexError", range |-> ranges]
    ELSE IF parse_limiter(limiter[i + 1]).raised # "no"
         THEN [raised |-> parse_limiter(limiter[i + 1]).raised, range |-> ranges]
         ELSE parse_limiters(limiter, id_count, i + 1,
                             Append(ranges, parse_limiter(limiter[i + 1]).range))

\* ts.string and the registered quantifier pairs, for the ranges r of the line
StringOf(line, r) ==
    [raised |-> r.raised,
     ts |-> TString(r.range, line.description,
                    register_quant(line.quantifier, 1, NoQuantifier))]

\* one variant line: its limiters, its string and its quantifier pairs
parse_string(line, id_count) ==
    StringOf(line, parse_limiters(line.minmax, id_count, 0, <<>>))

\* for i in range(0, int(tcount.group())): the variant lines of one language
RECURSIVE parse_strings(_, _, _, _)
parse_strings(lines, id_count, k, strings) ==
    IF k > Len(lines) THEN [raised |-> "no", strings |-> strings]
    ELSE IF parse_string(lines[k], id_count).raised # "no"
         THEN [raised |-> parse_string(lines[k], id_count).raised, strings |-> strings]
         ELSE parse_strings(lines, id_count, k + 1,
                            Append(strings, parse_string(lines[k], id_count).ts))

\* while t: the language bundles of the block, English first
RECURSIVE parse_languages(_, _, _, _)
parse_languages(bundles, id_count, k, languages) ==
    IF k > Len(bundles) THEN [raised |-> "no", languages |-> languages]
    ELSE IF parse_strings(bundles[k].lines, id_count, 1, <<>>).raised # "no"
         THEN [raised |-> parse_strings(bundles[k].lines, id_count, 1, <<>>).raised,
               languages |-> languages]
         ELSE parse_languages(bundles, id_count, k + 1,
                  Append(languages,
                         TLanguage(bundles[k].language,
                                   parse_strings(bundles[k].lines, id_count, 1, <<>>).strings)))

\* the translation of the block, for the languages r that were parsed
DescriptionOf(id_count, ids, r) ==
    [raised |-> r.raised,
     warned |-> IF Len(ids) # id_count THEN 1 ELSE 0,
     translation |-> TTranslation(ids, r.languages)]

\* the block from "id_count = int(ids[0])" to the end of the language loop:
\* [raised, warned, translation]
parse_description(id_count, ids, bundles) ==
    DescriptionOf(id_count, ids, parse_languages(bundles, id_count, 1, <<>>))

\* the limiter tokens of the variant lines
LimiterTokens == {<<"#">>, <<"5">>, <<"1", "|", "9">>, <<"5", "|", "#">>, <<"-">>}

VariantLines ==
    {[minmax |-> m, description |-> <<"x">>, quantifier |-> q] :
        m \in SeqsUpTo(LimiterTokens, MaxTags) \ {<<>>},
        q \in {<<>>, <<<<"negate", 1>>>>}}

\* the bundles of a block with one variant line, in English alone or in
\* English and German
Bundles(line) ==
    {<<[language |-> "English", lines |-> <<line>>]>>,
     <<[language |-> "English", lines |-> <<line>>],
       [language |-> "German", lines |-> <<line>>]>>}

ParseArgs ==
    {[op |-> "args", id_count |-> n, ids |-> ids, bundles |-> b] :
        n \in 0..MaxTags,
        ids \in SeqsUpTo(QueryIds, MaxTags) \ {<<>>},
        b \in UNION {Bundles(line) : line \in VariantLines}}

\* _read on a text of one description block: the block is parsed, and if
\* nothing was raised the translation is appended and indexed by its ids
ReadDescription ==
    /\ pcall.op = "args"
    /\ LET r == parse_description(pcall.id_count, pcall.ids, pcall.bundles)
           f == read_description(File(translations, translations_hash, r.warned),
                                 r.translation)
       IN  /\ pcall' = [op |-> "_read", id_count |-> pcall.id_count, ids |-> pcall.ids,
                        bundles |-> pcall.bundles, raised |-> r.raised,
                        warned |-> r.warned]
           /\ IF r.raised = "no"
              THEN /\ translations' = f.translations
                   /\ translations_hash' = f.hash
                   /\ warned' = f.warned
              ELSE /\ warned' = r.warned
                   /\ UNCHANGED <<translations, translations_hash>>
    /\ UNCHANGED <<other, ops, result, rcall, scall, fcall, cacheVars, hcall>>

NextParse == ReadDescription

InitParse ==
    /\ InitFile
    /\ rcall = NoCall
    /\ scall = NoCall
    /\ fcall = NoCall
    /\ NoCache
    /\ hcall = NoCall
    /\ pcall \in ParseArgs

SpecParse == InitParse /\ [][NextParse]_vars

(***************************************************************************)
(* Properties                                                              *)
(***************************************************************************)
SeqSet(s) == {s[k] : k \in 1..Len(s)}

NoDup(s) == \A p, q \in 1..Len(s) : p # q => s[p] # s[q]

IsQuery == result.op = "get_translation"

Returned == IsQuery /\ result.res.raised = "no"

\* the positions of the query whose id is a key of the index
KnownPos == {i \in 1..Len(result.tags) : HasKey(translations_hash, result.tags[i])}

UnknownPos == (1..Len(result.tags)) \ KnownPos

\* the translations in the index buckets of the supplied ids
Touched == UNION {SeqSet(Bucket(translations_hash, result.tags[i])) : i \in KnownPos}

\* every id of tr is among the supplied ids
Supplied(tr) == \A k \in 1..Len(tr.ids) : InList(tr.ids[k], result.tags)

\* the n-th smallest element of a set of positions
Nth(P, n) == CHOOSE i \in P : Cardinality({j \in P : j <= i}) = n

\* where tr is first met: (position of the id in the query, position in its bucket)
FirstTag(tr) ==
    CHOOSE i \in KnownPos :
        /\ InList(tr, Bucket(translations_hash, result.tags[i]))
        /\ \A j \in KnownPos :
             InList(tr, Bucket(translations_hash, result.tags[j])) => i <= j

FirstInBucket(tr) == ListIndex(tr, Bucket(translations_hash, result.tags[FirstTag(tr)]))

MetBefore(t, u) ==
    \/ FirstTag(t) < FirstTag(u)
    \/ FirstTag(t) = FirstTag(u) /\ FirstInBucket(t) < FirstInBucket(u)

\* some present index of the variant scores 0
RejectedAt(ts, values, indexes) ==
    \E k \in 1..Len(indexes) :
        in_range(ts.range[indexes[k] + 1], test_values_of(values)[indexes[k] + 1]) = 0

AllRejected(tl, values, indexes) ==
    \A k \in 1..Len(tl.strings) : RejectedAt(tl.strings[k], values, indexes)

HasBundle(tr, lang) == \E k \in 1..Len(tr.languages) : tr.languages[k].language = lang

\* C1: a touched translation is in invalid (and not in found, without a
\* line) exactly when only part of its ids was supplied; with all its ids
\* supplied, whatever their values, it is in found and has a line.
C1_InvalidIffPartial ==
    Returned =>
        \A tr \in Touched :
            /\ InList(tr, result.res.invalid) <=> ~Supplied(tr)
            /\ InList(tr, result.res.invalid) => ~InList(tr, result.res.found)
            /\ Supplied(tr) => /\ InList(tr, result.res.found)
                               /\ Len(result.res.lines) = Len(result.res.found)

\* C2: found and invalid are disjoint and free of repetitions, and together
\* they hold as many translations as the buckets of the supplied ids.
C2_FoundInvalidPartition ==
    Returned =>
        /\ NoDup(result.res.found)
        /\ NoDup(result.res.invalid)
        /\ SeqSet(result.res.found) \cap SeqSet(result.res.invalid) = {}
        /\ Len(result.res.found) + Len(result.res.invalid) = Cardinality(Touched)

C2_Witness ==
    /\ Returned
    /\ Len(result.res.found) >= 1
    /\ Len(result.res.invalid) >= 1
    /\ \E tr \in Touched : Len(tr.ids) = 2 /\ Supplied(tr)

\* C3: an id that is not a key of the index does not raise; it is recorded
\* in missing_ids with its value at the same position of missing_values, in
\* query order, it touches no translation and the other ids are processed.
C3_MissingRecorded ==
    (IsQuery /\ Len(result.values) >= Len(result.tags)) =>
        /\ result.res.at # "scan"
        /\ result.res.raised = "no" =>
            /\ Len(result.res.missing_ids) = Cardinality(UnknownPos)
            /\ Len(result.res.missing_values) = Cardinality(UnknownPos)
            /\ \A n \in 1..Cardinality(UnknownPos) :
                 /\ result.res.missing_ids[n] = result.tags[Nth(UnknownPos, n)]
                 /\ result.res.missing_values[n] = result.values[Nth(UnknownPos, n)]
            /\ SeqSet(result.res.found) \cup SeqSet(result.res.invalid) = Touched

C3_Witness ==
    /\ Returned
    /\ Len(result.tags) = 2
    /\ 1 \in UnknownPos
    /\ 2 \in KnownPos
    /\ result.res.missing_ids = <<result.tags[1]>>
    /\ result.res.missing_values = <<result.values[1]>>
    /\ Len(result.res.found) >= 1

\* C4: found keeps the surviving translations in the order in which the scan
\* of the ids first met them (bucket order within one id), also after the
\* invalid ones are removed, and lines[p] is the line of found[p].
C4_EncounterOrder ==
    Returned =>
        /\ \A p, q \in 1..Len(result.res.found) :
             p < q => MetBefore(result.res.found[p], result.res.found[q])
        /\ Len(result.res.lines) = Len(result.res.found)
        /\ \A p \in 1..Len(result.res.found) :
             result.res.lines[p] =
                 get_string(get_language(result.res.found[p], result.lang),
                            result.res.values[p], result.res.indexes[p],
                            FALSE, FALSE).out

C4_Witness ==
    /\ Returned
    /\ Len(result.res.found) >= 2
    /\ Len(result.res.invalid) >= 1
    /\ MetBefore(result.res.invalid[1], result.res.found[1])

\* the match score get_string computes for variant k of the chosen bundle
CallScore(k) ==
    match_range(scall.tl.strings[k], test_values_of(scall.values), scall.indexes)

Rendered == scall.op = "render" /\ scall.raised = "no"

\* C5: get_string formats with the variant of maximal match score, the
\* earliest declared one among those of maximal score; with the ranges
\* #, 100|#, #|0 value 100 selects the second variant, 50 the first and -1
\* the third.
C5_MaxScoreEarliest ==
    Rendered =>
        /\ \E k \in 1..Len(scall.tl.strings) :
             /\ scall.ts = scall.tl.strings[k]
             /\ \A j \in 1..Len(scall.tl.strings) : CallScore(j) <= CallScore(k)
             /\ \A j \in 1..(k - 1) : CallScore(j) < CallScore(k)
             /\ scall.out = format_string(scall.tl.strings[k],
                                          short_values_of(scall.values),
                                          is_range_of(scall.values), FALSE, FALSE).out
        /\ (scall.tr = SFreeze /\ scall.indexes = <<0>>) =>
             /\ scall.values = <<<<100>>>> => scall.out = <<"A">>
             /\ scall.values = <<<<50>>>> => scall.out = <<"5", "0", "f">>
             /\ scall.values = <<<<-1>>>> => scall.out = <<"C">>

C5_Witness ==
    /\ Rendered
    /\ scall.tr = STie
    /\ scall.indexes = <<0>>
    /\ scall.values = <<<<50>>>>
    /\ CallScore(1) = CallScore(2)
    /\ scall.out = <<"P">>

\* C6: a variant that scores 0 at a present index has match score zero and
\* is never the one get_string formats with.
C6_RejectedNeverUsed ==
    Rendered =>
        \A k \in 1..Len(scall.tl.strings) :
            RejectedAt(scall.tl.strings[k], scall.values, scall.indexes) =>
                /\ CallScore(k) = 0
                /\ scall.ts # scall.tl.strings[k]

\* C7: when every variant of the requested language's bundle is rejected the
\* line comes from the English bundle, and when the English bundle rejects
\* the values too the translation is in invalid and has no line.
C7_FallbackToEnglish ==
    Returned =>
        \A p \in 1..Len(result.res.found) :
            LET tr == result.res.found[p]
                tl == get_language(tr, result.lang)
                en == get_language(tr, "English")
            IN  AllRejected(tl, result.res.values[p], result.res.indexes[p]) =>
                    /\ ~AllRejected(en, result.res.values[p], result.res.indexes[p])
                    /\ result.res.lines[p] =
                           get_string(en, result.res.values[p], result.res.indexes[p],
                                      FALSE, FALSE).out

\* C8: a language without a bundle is rendered with the English bundle and
\* without an error; a language with a bundle is rendered with that bundle,
\* wherever it stands among the bundles.
C8_LanguageLookup ==
    scall.op = "render" =>
        /\ HasBundle(scall.tr, scall.lang) =>
             /\ scall.tl # None
             /\ scall.tl.language = scall.lang
             /\ InList(scall.tl, scall.tr.languages)
        /\ (~HasBundle(scall.tr, scall.lang) /\ HasBundle(scall.tr, "English")) =>
             /\ scall.tl # None
             /\ scall.tl.language = "English"
             /\ InList(scall.tl, scall.tr.languages)
             /\ scall.raised # "AttributeError"

C8_Witness ==
    /\ Rendered
    /\ scall.tr = SPair
    /\ scall.lang = "French"
    /\ scall.tl.language = "English"

\* C9: in_range is 1 without bounds, 2 with one bound that the value
\* satisfies, 3 with two bounds that enclose the value and 0 otherwise; the
\* score is in 0..3 and positive exactly when the value lies in the range.
C9_InRangeScore ==
    rcall.op = "in_range" =>
        LET hasMin == rcall.min # None
            hasMax == rcall.max # None
            inside == /\ hasMin => rcall.min[1] <= rcall.value
                      /\ hasMax => rcall.value <= rcall.max[1]
            expected == IF ~inside THEN 0
                        ELSE IF hasMin /\ hasMax THEN 3
                        ELSE IF hasMin \/ hasMax THEN 2
                        ELSE 1
        IN  /\ rcall.score = expected
            /\ rcall.score \in 0..3
            /\ rcall.score > 0 <=> inside

C9_Witness ==
    /\ rcall.op = "in_range"
    /\ rcall.min = None
    /\ rcall.max # None
    /\ rcall.value = rcall.max[1]
    /\ rcall.score = 2

\* the translations a file retains, in its list or in a bucket of its index
Retained ==
    SeqSet(translations)
        \cup UNION {SeqSet(translations_hash[k][2]) : k \in 1..Len(translations_hash)}

\* C10: after any reads and merges the file retains one translation per ids
\* tuple.
C10_OnePerIdsTuple ==
    \A t, u \in Retained : t.ids = u.ids => t = u

\* merge applied to two file values: the list and the index of the result
Merged(f, o) ==
    LET m == merge(File(f.translations, f.hash, 0), o)
    IN  [translations |-> m.translations, hash |-> m.hash]

\* C11: merging again a file that is already merged changes neither the
\* list nor the index, and merging b then c gives the list and the index of
\* merging (b merged with c).
C11_MergeIdempotentAssociative ==
    LET a == [translations |-> translations, hash |-> translations_hash]
    IN  /\ Merged(Merged(a, other), other) = Merged(a, other)
        /\ \A t \in Descriptions :
             Merged(Merged(a, other), FileOf(<<t>>))
                 = Merged(a, Merged(other, FileOf(<<t>>)))

\* C20: a call with len(values) # len(tags) fails, with values shorter and
\* with values longer than tags.
C20_LengthMismatchFails ==
    (IsQuery /\ Len(result.values) # Len(result.tags)) => result.res.raised # "no"

(***************************************************************************)
(* Properties of format_string                                             *)
(***************************************************************************)
Formatted == fcall.op = "format_string"

LiteralCall == Formatted /\ ~fcall.only_values /\ ~fcall.use_placeholder

PlaceholderCall == Formatted /\ ~fcall.only_values /\ fcall.use_placeholder

ValuesOnlyCall == Formatted /\ fcall.only_values

\* the text of the line with every '%%' turned into '%'
Unescaped == StrReplace(fcall.ts.string, <<"%", "%">>, <<"%">>)

\* one of the two placeholders of the value at 0-based index i occurs in s
Occurs(i, s) == Contains(Tag1(i), s) \/ Contains(Tag2(i), s)

\* the values whose placeholders occur (or do not occur) in s, in index order
RECURSIVE Emitted(_, _, _, _)
Emitted(s, vals, i, occurring) ==
    IF i >= Len(vals) THEN <<>>
    ELSE (IF Occurs(i, s) = occurring THEN <<vals[i + 1]>> ELSE <<>>)
         \o Emitted(s, vals, i + 1, occurring)

\* every (transform, index) pair the line names, each counted once
BoundPairs == {fcall.line.quant[k] : k \in 1..Len(fcall.line.quant)}

OnceAt(j, v) ==
    LET a == IF <<"negate", j>> \in BoundPairs THEN -v ELSE v
    IN  IF <<"deciseconds_to_seconds", j>> \in BoundPairs THEN a * 10 ELSE a

OnceValues ==
    [j \in 1..Len(fcall.values) |->
        IF fcall.is_range[j]
        THEN <<OnceAt(j, fcall.values[j][1]), OnceAt(j, fcall.values[j][2])>>
        ELSE <<OnceAt(j, fcall.values[j][1])>>]

\* the values after the transforms, as the call computed them
Handled == handle(fcall.ts.quantifier, fcall.values, fcall.is_range)

\* '+' in front of a value that is not negative
SignedInt(v) == IF v >= 0 THEN <<"+">> \o StrNat(v) ELSE StrInt(v)

\* s with '%N%' replaced by str(v) and '%N$+d' by the signed value
RECURSIVE SignedLiteral(_, _, _)
SignedLiteral(s, vals, i) ==
    IF i >= Len(vals) THEN s
    ELSE SignedLiteral(StrReplace(StrReplace(s, Tag1(i), StrInt(vals[i + 1][1])),
                                  Tag2(i), SignedInt(vals[i + 1][1])),
                       vals, i + 1)

\* s with the placeholders of value i replaced by letters[i + 1]
RECURSIVE WithLetters(_, _, _, _)
WithLetters(s, letters, i, n) ==
    IF i >= n THEN s
    ELSE WithLetters(ReplaceNew(i, s, <<letters[i + 1]>>), letters, i + 1, n)

LettersWrapLower ==
    <<"x", "y", "z", "a", "b", "c", "d", "e", "f", "g", "h", "i", "j", "k",
      "l", "m", "n", "o", "p", "q", "r", "s", "t", "u", "v", "w">>

LettersThenUpper ==
    <<"x", "y", "z", "A", "B", "C", "D", "E", "F", "G", "H", "I", "J", "K",
      "L", "M", "N", "O", "P", "Q", "R", "S", "T", "U", "V", "W", "X", "Y", "Z">>

\* C15: in Literal mode '%%' becomes '%' only after the placeholders are
\* substituted, so '%1%% reduced damage' with negate 1 and -5 renders
\* '5% reduced damage'.
C15_EscapeAfterSubstitution ==
    LiteralCall =>
        fcall.out = StrReplace(FormatLiteral(fcall.ts.string, Handled,
                                             fcall.is_range, 0, <<>>).out,
                               <<"%", "%">>, <<"%">>)

\* C16: in Literal mode '%N$+d' renders the transformed value with an
\* explicit sign ('+' when it is >= 0, '-' when negative) and '%N%' renders it
\* without a forced sign.
C16_ForcedSign ==
    (LiteralCall /\ \A j \in 1..Len(fcall.values) : ~fcall.is_range[j]) =>
        fcall.out = SignedLiteral(Unescaped, Handled, 0)

\* C17: in ValuesOnly mode every transformed value is emitted exactly once:
\* in the returned list, in index order, when one of its placeholders occurs
\* in the text, otherwise in unused.
C17_ValuesOnlyOnce ==
    ValuesOnlyCall =>
        /\ fcall.out = Emitted(Unescaped, Handled, 0, TRUE)
        /\ fcall.unused = Emitted(Unescaped, Handled, 0, FALSE)

\* C18 as stated: in Placeholder mode the value at index i is replaced by
\* the i-th letter of x, y, z, a, b, ..., w, and a value whose placeholder does
\* not occur is reported in unused.
C18_LettersWrapLower ==
    PlaceholderCall =>
        /\ fcall.out = WithLetters(Unescaped, LettersWrapLower, 0, Len(fcall.values))
        /\ fcall.unused = Emitted(Unescaped, Handled, 0, FALSE)

\* C18 amended: in Placeholder mode the value at index i is replaced by the
\* i-th letter of x, y, z, A, B, ..., Z, and a value whose placeholder does not
\* occur is reported in unused.
C18_LettersThenUpper ==
    PlaceholderCall =>
        /\ fcall.out = WithLetters(Unescaped, LettersThenUpper, 0, Len(fcall.values))
        /\ fcall.unused = Emitted(Unescaped, Handled, 0, FALSE)

\* a Placeholder call with a fourth value whose placeholder occurs and a
\* value whose placeholder does not occur
C18_Witness ==
    /\ PlaceholderCall
    /\ Len(fcall.values) >= 4
    /\ Occurs(3, Unescaped)
    /\ fcall.unused # <<>>

\* C19: every (transform, index) pair a line binds changes its value by
\* exactly one application of the transform, f(v) for a scalar and
\* (f(lo), f(hi)) for a range, also when the line names the pair more than once.
C19_TransformAppliedOnce ==
    Formatted =>
        LET r == IF fcall.only_values
                 THEN FormatOnlyValues(Unescaped, OnceValues, 0, <<>>, <<>>)
                 ELSE IF fcall.use_placeholder
                      THEN FormatPlaceholder(Unescaped, OnceValues, 0, <<>>)
                      ELSE FormatLiteral(Unescaped, OnceValues, fcall.is_range, 0, <<>>)
        IN  /\ fcall.out = r.out
            /\ fcall.unused = r.unused

(***************************************************************************)
(* Properties of the cache                                                 *)
(***************************************************************************)
\* the paths the text of p includes
IncludedBy(p) ==
    {disk[p][k].path : k \in {j \in 1..Len(disk[p]) : disk[p][j].kind = "include"}}

\* no file includes itself, directly or through other files
Acyclic ==
    \E rank \in [DOMAIN disk -> 1..Cardinality(DOMAIN disk)] :
        \A p \in DOMAIN disk : \A q \in IncludedBy(p) : rank[q] < rank[p]

Got == got.op \in {"get_file", "getitem"}

QueriedCached == got.op = "get_translation"

\* the overlay declares nothing for the id
NotInOverlay(id) == custom_file = None \/ ~HasKey(custom_file.hash, id)

\* C12: over an acyclic include graph every path is loaded at most once,
\* also a path reached only through include lines, and every get returns the
\* object the first get of the path returned.  The objects built from one path
\* are numbered in the order they are built, so with one load per path the
\* object in the map, and the one every get returns, is number 1.
C12_LoadedOnceSameObject ==
    Acyclic =>
        /\ \A p \in DOMAIN loads : loads[p] <= 1
        /\ \A p \in DOMAIN files : files[p].gen = 1
        /\ Got => (got.raised = "no" /\ got.gen = 1 /\ files[got.name].gen = 1)

\* the file included by two files is returned after every file of the
\* diamond has been loaded
C12_Witness ==
    /\ disk = DiskDiamond
    /\ Got
    /\ gets >= 2
    /\ got.name = Metadata("leaf")
    /\ DOMAIN files = DOMAIN disk
    /\ \A p \in DOMAIN disk : loads[p] = 1

DeclaresAndIncludes(i, j, k) ==
    LET items == disk[got.name]
    IN  /\ items[i].kind = "description"
        /\ items[j].kind = "include"
        /\ disk[items[j].path][k].kind = "description"
        /\ disk[items[j].path][k].t.ids = items[i].t.ids
        /\ disk[items[j].path][k].t # items[i].t
        /\ got.tags = items[i].t.ids
        /\ \A n \in 1..Len(got.tags) : NotInOverlay(got.tags[n])

RendersOnly(t) ==
    /\ got.res.raised = "no"
    /\ got.res.found = <<t>>
    /\ got.res.lines = <<t.languages[1].strings[1].string>>

\* C14 as stated: a query on the ids renders the included file's variant
\* and only it, with found of length 1, whether the include line stands before
\* or after the file's own declaration.
C14_IncludedWinsEitherOrder ==
    QueriedCached =>
        \A i, j \in 1..Len(disk[got.name]) :
            \A k \in 1..(IF disk[got.name][j].kind = "include"
                         THEN Len(disk[disk[got.name][j].path]) ELSE 0) :
                DeclaresAndIncludes(i, j, k) =>
                    RendersOnly(disk[disk[got.name][j].path][k].t)

\* C14 amended: found has length 1 and the later declaration is rendered:
\* the included file's variant when the include line stands after the file's
\* own declaration, the file's own variant when the include line stands
\* before it.
C14_LaterDeclarationWins ==
    QueriedCached =>
        \A i, j \in 1..Len(disk[got.name]) :
            \A k \in 1..(IF disk[got.name][j].kind = "include"
                         THEN Len(disk[disk[got.name][j].path]) ELSE 0) :
                DeclaresAndIncludes(i, j, k) =>
                    RendersOnly(IF j > i THEN disk[disk[got.name][j].path][k].t
                                ELSE disk[got.name][i].t)

\* the include line stands before the declaration and the query renders
\* the file's own variant
C14_Witness ==
    /\ QueriedCached
    /\ disk = DiskBefore
    /\ got.name = Metadata("base")
    /\ DeclaresAndIncludes(2, 1, 1)
    /\ RendersOnly(TXA)

(***************************************************************************)
(* Properties of the list, the index and the full result                   *)
(***************************************************************************)
\* C27: the ordered list and the id index agree: every translation of the
\* list is in the bucket of each of its ids, and every translation of a bucket
\* is in the list.
C27_ListAndIndexAgree ==
    /\ \A k \in 1..Len(translations) :
         \A j \in 1..Len(translations[k].ids) :
            /\ HasKey(translations_hash, translations[k].ids[j])
            /\ InList(translations[k], Bucket(translations_hash, translations[k].ids[j]))
    /\ \A k \in 1..Len(translations_hash) :
         \A u \in SeqSet(translations_hash[k][2]) : InList(u, translations)

\* the positions of the query that hold an (id, value) pair for the first time
FirstPairs ==
    {i \in 1..Len(result.tags) :
        \A j \in 1..(i - 1) :
            ~(result.tags[j] = result.tags[i] /\ result.values[j] = result.values[i])}

OnceTags == [n \in 1..Cardinality(FirstPairs) |-> result.tags[Nth(FirstPairs, n)]]

OnceValues2 == [n \in 1..Cardinality(FirstPairs) |-> result.values[Nth(FirstPairs, n)]]

\* C28: a query that repeats an (id, value) pair gives the lines of the
\* query with the pair supplied once, and no present-index list holds an index
\* twice.
C28_RepeatedPairIgnored ==
    (Returned /\ Len(result.values) = Len(result.tags)) =>
        /\ result.res.lines =
               get_translation(translations_hash, OnceTags, OnceValues2,
                               result.lang, FALSE, FALSE).lines
        /\ \A k \in 1..Len(result.res.indexes) : NoDup(result.res.indexes[k])

\* C29: get_file returns normally on every disk, also when a file includes
\* itself, and the file asked for is in the map afterwards.
C29_GetFileTerminates ==
    Got => (got.raised = "no" /\ got.name \in DOMAIN files)

\* C30: in a full result found, indexes, values, lines and values_unused
\* have one length; at position k, values holds one slot per id of found[k],
\* indexes names positions of ids of found[k] that the query supplied with
\* that value, and lines and values_unused are the rendering of found[k] with
\* values[k] and indexes[k]; no invalid translation is in found.
C30_ParallelLists ==
    Returned =>
        LET r == result.res
        IN  /\ Len(r.indexes) = Len(r.found)
            /\ Len(r.values) = Len(r.found)
            /\ Len(r.lines) = Len(r.found)
            /\ Len(r.values_unused) = Len(r.found)
            /\ \A k \in 1..Len(r.found) :
                 /\ Len(r.values[k]) = Len(r.found[k].ids)
                 /\ \A j \in 1..Len(r.indexes[k]) :
                      /\ r.indexes[k][j] \in 0..(Len(r.found[k].ids) - 1)
                      /\ \E i \in 1..Len(result.tags) :
                           /\ result.tags[i] = r.found[k].ids[r.indexes[k][j] + 1]
                           /\ result.values[i] = r.values[k][r.indexes[k][j] + 1]
                 /\ LET g == get_string(get_language(r.found[k], result.lang),
                                        r.values[k], r.indexes[k], FALSE, FALSE)
                    IN  /\ r.lines[k] = g.out
                        /\ r.values_unused[k] = g.unused
            /\ \A t \in SeqSet(r.invalid) : ~InList(t, r.found)

\* a result with two translations in found and one in invalid
C30_Witness ==
    /\ Returned
    /\ Len(result.res.found) >= 2
    /\ result.res.invalid # <<>>

(***************************************************************************)
(* Properties of _add_translation_hashed                                   *)
(***************************************************************************)
Added == hcall.op = "add_translation_hashed"

\* the bucket of the id before the call (empty without the key) and after it
BucketBefore ==
    IF HasKey(hcall.before.hash, hcall.id) THEN Bucket(hcall.before.hash, hcall.id)
    ELSE <<>>

BucketAfter == Bucket(hcall.after.hash, hcall.id)

\* C23: when the bucket holds a translation with the ids tuple of the
\* incoming one that differs from it, that translation is replaced by the
\* incoming one, and every translation of the bucket with another ids tuple is
\* still in the bucket.
C23_OnlySameIdsReplaced ==
    (Added /\ ~InList(hcall.t, BucketBefore)
           /\ \E u \in SeqSet(BucketBefore) : u.ids = hcall.t.ids) =>
        /\ InList(hcall.t, BucketAfter)
        /\ \A w \in SeqSet(BucketBefore) :
             IF w.ids = hcall.t.ids THEN ~InList(w, BucketAfter)
             ELSE InList(w, BucketAfter)

\* C24: when the bucket holds a translation equal to the incoming one, at
\* whatever position, the call leaves the bucket unchanged and warns of nothing.
C24_EqualIsNoOp ==
    (Added /\ InList(hcall.t, BucketBefore)) =>
        /\ BucketAfter = BucketBefore
        /\ hcall.after.warned = 0

\* C25: when every translation of the bucket has an ids tuple other than
\* the incoming one's, the incoming translation is appended once, with one
\* warning, whatever the size of the bucket; and no bucket of a file holds a
\* translation twice.
C25_AppendedOnce ==
    Added =>
        /\ (BucketBefore # <<>> /\ \A w \in SeqSet(BucketBefore) : w.ids # hcall.t.ids) =>
              /\ BucketAfter = Append(BucketBefore, hcall.t)
              /\ hcall.after.warned = 1
        /\ \A k \in 1..Len(hcall.after.hash) : NoDup(hcall.after.hash[k][2])

(***************************************************************************)
(* Properties of get_translation on a loaded file                          *)
(***************************************************************************)
QueryTouches(tr) == \E k \in 1..Len(result.tags) : InList(result.tags[k], tr.ids)

EmptyEnglish(tr) ==
    \E l \in 1..Len(tr.languages) :
        /\ tr.languages[l].language = "English"
        /\ tr.languages[l].strings = <<>>

\* the translations of the file that the held query has all the ids of and
\* that have a variant in English
Renderable(tr) ==
    /\ \A j \in 1..Len(tr.ids) : InList(tr.ids[j], result.tags)
    /\ ~EmptyEnglish(tr)

\* C21: a query in English that touches a translation whose English bundle
\* has no variant does not raise; the translation is listed in invalid and is
\* not among the found ones, and every other translation of the query that
\* has all its ids supplied is still rendered to a line.
C21_EmptyBundleIsInvalid ==
    (result.op = "get_translation" /\ result.lang = "English")
    => \A t \in 1..Len(translations) :
          (QueryTouches(translations[t]) /\ EmptyEnglish(translations[t]))
          => /\ result.res.raised = "no"
             /\ InList(translations[t], result.res.invalid)
             /\ ~InList(translations[t], result.res.found)
             /\ \A u \in 1..Len(translations) :
                   Renderable(translations[u])
                   => /\ InList(translations[u], result.res.found)
                      /\ Len(result.res.lines) = Len(result.res.found)

Parsed == pcall.op = "_read"

\* every variant of every language bundle of the translations of the file
\* has as many ranges as its translation has ids
ArityKept ==
    \A t \in 1..Len(translations) :
       \A l \in 1..Len(translations[t].languages) :
          \A s \in 1..Len(translations[t].languages[l].strings) :
             Len(translations[t].languages[l].strings[s].range)
                 = Len(translations[t].ids)

\* every variant line of the block has a limiter for every id token
LimiterPerId ==
    \A b \in 1..Len(pcall.bundles) :
       \A k \in 1..Len(pcall.bundles[b].lines) :
          /\ Len(pcall.bundles[b].lines[k].minmax) = Len(pcall.ids)
          /\ \A i \in 1..Len(pcall.ids) :
                pcall.bundles[b].lines[k].minmax[i] # <<"-">>

\* C26: after a parse that completes every variant of every language bundle
\* has as many ranges as its translation has ids; a declared id count that
\* differs from the number of id tokens gives a warning and, on a block whose
\* variant lines have one well-formed limiter per id token, does not abort the
\* parse.
C26_VariantArity ==
    Parsed
    => /\ pcall.raised = "no" => ArityKept
       /\ Len(pcall.ids) # pcall.id_count
          => /\ pcall.warned >= 1 /\ warned >= 1
             /\ LimiterPerId => pcall.raised = "no"

====
